---- MODULE Spec2Model ----
(***************************************************************************)
(* linkcrawl: a concurrent single-domain web crawler.                      *)
(*                                                                         *)
(* The model has two layers.                                               *)
(*  - The pure layer: crawler.cleanUrl, filteredLinks, startFindLinks and  *)
(*    ProcessResponse, with net/url's Parse modelled by what it does.      *)
(*    A Go string is a sequence of lexemes: each lexeme stands for a run   *)
(*    of bytes that none of the string operations of the code ever splits  *)
(*    ("https", "example.com", "8080") or for one significant byte         *)
(*    (":", "/", "#", "?", " ") or for a percent escape ("%25").           *)
(*  - The concurrent layer: the goroutines of the crawl pipeline (seed,    *)
(*    cache, monitor, crawl workers, detached hand-offs, fetcher workers,  *)
(*    stream) communicating over unbuffered channels.  The repository      *)
(*    holds two wirings of the same pipeline, fronter.Fronter and the      *)
(*    main package built on fetcher.Fetcher; the variable impl says which  *)
(*    one a behaviour runs.                                                *)
(***************************************************************************)
EXTENDS Integers, Sequences, FiniteSets, Bags, TLC

(***************************************************************************)
(* Strings as sequences of lexemes                                         *)
(***************************************************************************)

\* Lexemes made of letters, starting with a letter.
LetterWords == {"http", "https", "example.com", "subdomain.example.com", "google.com",
                "a", "b", "fragment", "relative", "path"}

\* Lexemes made of digits (and dots), starting with a digit.
DigitWords == {"8080", "127.0.0.1"}

\* Lexemes made of digits only.
Digits == {"8080"}

\* The empty Go string.
Empty == <<>>

\* strings.Index: the first position of lexeme c in s, 0 when absent.
Index(s, c) ==
  IF \E i \in 1..Len(s) : s[i] = c
  THEN CHOOSE i \in 1..Len(s) : s[i] = c /\ \A j \in 1..(i - 1) : s[j] # c
  ELSE 0

\* strings.LastIndex: the last position of lexeme c in s, 0 when absent.
LastIndex(s, c) ==
  IF \E i \in 1..Len(s) : s[i] = c
  THEN CHOOSE i \in 1..Len(s) : s[i] = c /\ \A j \in (i + 1)..Len(s) : s[j] # c
  ELSE 0

\* s[from:] in Go, with 1-based from.
Suffix(s, from) == SubSeq(s, from, Len(s))

\* s[:to] in Go, with 1-based inclusive to.
Prefix(s, to) == SubSeq(s, 1, to)

\* strings.Count of a single lexeme.
Count(s, c) == Cardinality({i \in 1..Len(s) : s[i] = c})

\* strings.HasPrefix(s, "#"), HasPrefix(s, "/"), ... for a one-byte prefix.
HasPrefix(s, c) == Len(s) > 0 /\ s[1] = c

\* strings.HasPrefix(s, "http"): the first lexeme begins with the bytes http.
HasPrefixHttp(s) == Len(s) > 0 /\ s[1] \in {"http", "https"}

\* strings.Contains(s, "127.0.0.1").
ContainsLoopback(s) == \E i \in 1..Len(s) : s[i] = "127.0.0.1"

\* A TrimSpace that trims nothing.
TrimSpaceNone(s) == s

\* strings.TrimSpace.
TrimSpace(s) ==
  IF \A i \in 1..Len(s) : s[i] = " "
  THEN Empty
  ELSE LET first == CHOOSE i \in 1..Len(s) : s[i] # " " /\ \A j \in 1..(i - 1) : s[j] = " "
           last == CHOOSE i \in 1..Len(s) : s[i] # " " /\ \A j \in (i + 1)..Len(s) : s[j] = " "
       IN SubSeq(s, first, last)

(***************************************************************************)
(* net/url, as far as cleanUrl uses it                                     *)
(***************************************************************************)

\* The position at which url.getScheme stops scanning: the first byte that is
\* no letter, digit, '+', '-' or '.', or a leading non-letter; 0 if none.
SchemeStop(rawURL) ==
  IF \E i \in 1..Len(rawURL) : rawURL[i] \notin (LetterWords \cup DigitWords)
                               \/ (i = 1 /\ rawURL[i] \in DigitWords)
  THEN CHOOSE i \in 1..Len(rawURL) :
         /\ rawURL[i] \notin (LetterWords \cup DigitWords) \/ (i = 1 /\ rawURL[i] \in DigitWords)
         /\ \A j \in 1..(i - 1) :
              ~(rawURL[j] \notin (LetterWords \cup DigitWords) \/ (j = 1 /\ rawURL[j] \in DigitWords))
  ELSE 0

\* What url.getScheme returns having stopped at position i.
SchemeAt(rawURL, i) ==
  IF i = 0 \/ rawURL[i] # ":"
  THEN [err |-> FALSE, scheme |-> Empty, rest |-> rawURL]
  ELSE IF i = 1
  THEN [err |-> TRUE, scheme |-> Empty, rest |-> Empty]
  ELSE [err |-> FALSE, scheme |-> Prefix(rawURL, i - 1), rest |-> Suffix(rawURL, i + 1)]

\* url.getScheme: [err, scheme, rest].
getScheme(rawURL) == SchemeAt(rawURL, SchemeStop(rawURL))

\* url.validOptionalPort: "" or ":" followed by digits.
validOptionalPort(port) ==
  \/ port = Empty
  \/ /\ port[1] = ":"
     /\ \A i \in 2..Len(port) : port[i] \in Digits

\* url.unescape in the modes Parse uses: a percent escape is decoded, a bare
\* percent sign is an EscapeError.
unescapeFails(s) == \E i \in 1..Len(s) : s[i] = "%"

unescape(s) == [i \in 1..Len(s) |-> IF s[i] = "%25" THEN "%" ELSE s[i]]

\* The port test of url.parseHost, the last colon of the host being at position colon.
InvalidPortAt(host, colon) == colon # 0 /\ ~validOptionalPort(Suffix(host, colon))

\* url.parseHost: the port after the last colon must be valid, and a host may
\* hold no space and no bare percent sign.
parseHostFails(host) ==
  \/ InvalidPortAt(host, LastIndex(host, ":"))
  \/ unescapeFails(host)
  \/ \E i \in 1..Len(host) : host[i] = " "

\* The URL value Parse returns on failure.
NoURL == [err |-> TRUE, Scheme |-> Empty, Host |-> Empty, Path |-> Empty, RawQuery |-> Empty]

\* url.parse: the query cut off the rest, the first '?' being at position q
\* (a lone trailing '?' is dropped).
QueryCutAt(rest, q) ==
  IF q = 0 \/ (q = Len(rest) /\ Count(rest, "?") = 1)
  THEN [rest |-> IF q = 0 THEN rest ELSE Prefix(rest, q - 1), RawQuery |-> Empty]
  ELSE [rest |-> Prefix(rest, q - 1), RawQuery |-> Suffix(rest, q + 1)]

QueryCut(rest) == QueryCutAt(rest, Index(rest, "?"))

\* url.parse: the rest starts with "//" and an authority follows.
HasAuthority(scheme, rest) ==
  /\ Len(rest) >= 2 /\ rest[1] = "/" /\ rest[2] = "/"
  /\ scheme # Empty \/ ~(Len(rest) >= 3 /\ rest[3] = "/")

\* url.parse: the authority and the path, the authority ending before position cut.
AuthorityCutAt(after, cut) ==
  IF cut = 0
  THEN [has |-> TRUE, authority |-> after, path |-> Empty]
  ELSE [has |-> TRUE, authority |-> Prefix(after, cut - 1), path |-> Suffix(after, cut)]

AuthorityCut(scheme, rest) ==
  IF HasAuthority(scheme, rest)
  THEN AuthorityCutAt(Suffix(rest, 3), Index(Suffix(rest, 3), "/"))
  ELSE [has |-> FALSE, authority |-> Empty, path |-> rest]

\* url.parse: parseAuthority and setPath.
ParsedParts(scheme, RawQuery, a) ==
  IF a.has /\ parseHostFails(a.authority) THEN NoURL
  ELSE IF unescapeFails(a.path) THEN NoURL
  ELSE [err |-> FALSE, Scheme |-> scheme,
        Host |-> IF a.has THEN unescape(a.authority) ELSE Empty,
        Path |-> unescape(a.path), RawQuery |-> RawQuery]

\* The first path segment of a URL without scheme holds a colon.
ColonInFirstSegment(rest, slash) ==
  Index(IF slash = 0 THEN rest ELSE Prefix(rest, slash - 1), ":") # 0

\* url.parse after getScheme and the cut of the query.
ParsedRest(scheme, r) ==
  IF ~HasPrefix(r.rest, "/") /\ scheme # Empty
  THEN \* an opaque URL: no host, no path
       [err |-> FALSE, Scheme |-> scheme, Host |-> Empty, Path |-> Empty,
        RawQuery |-> r.RawQuery]
  ELSE IF ~HasPrefix(r.rest, "/") /\ ColonInFirstSegment(r.rest, Index(r.rest, "/"))
  THEN NoURL
  ELSE ParsedParts(scheme, r.RawQuery, AuthorityCut(scheme, r.rest))

ParsedScheme(s) == IF s.err THEN NoURL ELSE ParsedRest(s.scheme, QueryCut(s.rest))

\* url.parse(rawURL, viaRequest = false), the fragment already cut off.
parse(rawURL) == ParsedScheme(getScheme(rawURL))

\* url.Parse with the first '#' at position h: the fragment is cut off, the
\* rest parsed, and the escapes of the fragment checked.
ParseAt(rawURL, h) ==
  IF h = 0 THEN parse(rawURL)
  ELSE IF unescapeFails(Suffix(rawURL, h + 1)) THEN NoURL
  ELSE parse(Prefix(rawURL, h - 1))

\* url.Parse
Parse(rawURL) == ParseAt(rawURL, Index(rawURL, "#"))

\* The host without its port, the last colon being at position colon.
HostnameAt(host, colon) ==
  IF colon # 0 /\ validOptionalPort(Suffix(host, colon))
  THEN Prefix(host, colon - 1)
  ELSE host

\* URL.Hostname: the host without a valid port.
Hostname(u) == HostnameAt(u.Host, LastIndex(u.Host, ":"))

(***************************************************************************)
(* package crawler                                                         *)
(***************************************************************************)

\* "://"
SchemeSep == <<":", "/", "/">>

\* c.Domain.Scheme + "://" + c.Domain.Hostname()
DomainBase(domain) == domain.Scheme \o SchemeSep \o Hostname(domain)

\* The (string, error) pair cleanUrl returns.
Cleaned(url, err) == [url |-> url, err |-> err]

\* cleanUrl: a fragment link becomes the seed's scheme and host.
FragmentResolved(domain, rawUrl) ==
  IF HasPrefix(rawUrl, "#") THEN DomainBase(domain) ELSE rawUrl

\* cleanUrl: a relative link gets the seed's scheme and host in front.
RelativeResolved(domain, rawUrl) ==
  IF HasPrefix(rawUrl, "/") THEN DomainBase(domain) \o rawUrl ELSE rawUrl

\* cleanUrl: a loopback link without scheme gets "http://" in front.
LoopbackSchemed(rawUrl) ==
  IF ContainsLoopback(rawUrl) /\ ~HasPrefixHttp(rawUrl)
  THEN <<"http">> \o SchemeSep \o rawUrl ELSE rawUrl

\* cleanUrl: any other link without scheme gets "https://" in front.
HttpsSchemed(rawUrl) ==
  IF ~HasPrefixHttp(rawUrl) THEN <<"https">> \o SchemeSep \o rawUrl ELSE rawUrl

\* The scheme cleanUrl fills in when the parsed URL has none.
SchemeOf(u) ==
  IF u.Scheme # Empty THEN u.Scheme
  ELSE IF u.Host = <<"127.0.0.1">> THEN <<"http">> ELSE <<"https">>

\* The hostname test of cleanUrl: the link is kept when it holds.
SameHostname(u, domain) == Hostname(u) = Hostname(domain)

\* The reconstruction at the end of cleanUrl.
Reconstruct(u) ==
  SchemeOf(u) \o SchemeSep \o u.Host
    \o (IF Len(u.Path) > 0 /\ u.Path # <<"/">> THEN u.Path ELSE Empty)
    \o (IF Len(u.RawQuery) > 0 THEN <<"?">> \o u.RawQuery ELSE Empty)

\* cleanUrl after url.Parse.
CleanedParsed(domain, u) ==
  IF u.err THEN Cleaned(Empty, TRUE)
  ELSE IF ~SameHostname(u, domain) THEN Cleaned(Empty, FALSE)
  ELSE Cleaned(Reconstruct(u), FALSE)

\* Crawler.cleanUrl, with the crawler's Domain as a parameter.
cleanUrl(domain, rawUrl) ==
  CleanedParsed(domain,
    Parse(HttpsSchemed(LoopbackSchemed(RelativeResolved(domain,
      FragmentResolved(domain, TrimSpace(rawUrl)))))))

\* A filter that lets every entry through.
filteredFromAll(links, uniqueLinks) == links

\* filteredLinks: the distinct non-empty entries, in first-seen order.
RECURSIVE filteredFrom(_, _)
filteredFrom(links, uniqueLinks) ==
  IF links = <<>> THEN uniqueLinks
  ELSE IF Len(Head(links)) = 0 \/ \E i \in 1..Len(uniqueLinks) : uniqueLinks[i] = Head(links)
  THEN filteredFrom(Tail(links), uniqueLinks)
  ELSE filteredFrom(Tail(links), Append(uniqueLinks, Head(links)))

filteredLinks(links) == filteredFrom(links, <<>>)

\* startFindLinks keeps the cleaned link unless cleanUrl failed.
Kept(c) == IF c.err THEN <<>> ELSE <<c.url>>

\* A startFindLinks that returns the hrefs as they stand in the page.
startFindLinksRaw(domain, hrefs) == hrefs

\* startFindLinks: every anchor's href cleaned, the ones cleanUrl fails on skipped.
\* The body is given as the hrefs findLinks collects from it, in document order.
RECURSIVE startFindLinks(_, _)
startFindLinks(domain, hrefs) ==
  IF hrefs = <<>> THEN <<>>
  ELSE Kept(cleanUrl(domain, Head(hrefs))) \o startFindLinks(domain, Tail(hrefs))

\* The links ProcessResponse loops over.
PageLinks(domain, hrefs) == filteredLinks(startFindLinks(domain, hrefs))

\* What ProcessResponse appends to found for one link of that loop: the url
\* half of cleanUrl's result, the error ignored.
FoundUrl(domain, link) == cleanUrl(domain, link).url

\* The found slice ProcessResponse returns once the loop has run over links.
FoundLinks(domain, links) == [i \in 1..Len(links) |-> FoundUrl(domain, links[i])]

(***************************************************************************)
(* golang.org/x/net/html trees, as far as findLinks reads them             *)
(***************************************************************************)

\* html.Attribute
Attribute(Key, Val) == [Key |-> Key, Val |-> Val]

\* html.Node: its Type, Data and Attr fields.
DocumentNode == [Type |-> "Document", Data |-> "", Attr |-> << >>]
ElementNode(Data, Attr) == [Type |-> "Element", Data |-> Data, Attr |-> Attr]
TextNode(Data) == [Type |-> "Text", Data |-> Data, Attr |-> << >>]

\* A tree of html.Nodes: node 1 is the root, parent[n] is the parent of node
\* n, and the children of a node stand from left to right in ascending order.
Tree(nodes, parent) == [nodes |-> nodes, parent |-> parent]

\* The least node after node from that has the parent p, 0 (nil) if none.
ChildAfter(d, p, from) ==
  IF \E c \in (from + 1)..Len(d.nodes) : d.parent[c] = p
  THEN CHOOSE c \in (from + 1)..Len(d.nodes) :
         d.parent[c] = p /\ \A b \in (from + 1)..(c - 1) : d.parent[b] # p
  ELSE 0

\* A node without children.
FirstChildNone(d, n) == 0

\* n.FirstChild and child.NextSibling
FirstChild(d, n) == ChildAfter(d, n, n)
NextSibling(d, child) == ChildAfter(d, d.parent[child], child)

\* findLinks: the loop over n.Attr of an anchor, the attributes from i on.
RECURSIVE HrefVals(_, _)
HrefVals(attr, i) ==
  IF i > Len(attr) THEN << >>
  ELSE (IF attr[i].Key # "href" THEN << >> ELSE <<attr[i].Val>>) \o HrefVals(attr, i + 1)

\* findLinks: what the node itself adds to links.
OwnLinks(links, node) ==
  IF node.Type = "Element" /\ node.Data = "a" THEN links \o HrefVals(node.Attr, 1) ELSE links

\* Crawler.findLinks, and its loop over the children of n from child on.
RECURSIVE findLinks(_, _, _)
RECURSIVE findLinksFrom(_, _, _)
findLinks(links, d, n) == findLinksFrom(OwnLinks(links, d.nodes[n]), d, FirstChild(d, n))

findLinksFrom(links, d, child) ==
  IF child = 0 THEN links
  ELSE findLinksFrom(findLinks(links, d, child), d, NextSibling(d, child))

\* The document html.Parse returns for an empty body, its html, head and body
\* elements left out.
NoDoc == Tree(<<DocumentNode>>, <<0>>)

(***************************************************************************)
(* The environment: the web sites a crawl may run against                  *)
(***************************************************************************)

\* Bounds of the model.
NumWorkers == 2
NumFetchers == 1
RetryCount == 1
MaxRetries == 1
MaxHandoffs == 2
HandedCap == 2

\* The stability threshold the main package compares chances with.
MainChances == 3

Workers == 1..NumWorkers
Fetchers == 1..NumFetchers

\* Site 1 is a small cyclic site of pages that link to each other; site 2 has
\* a page with a link that does not parse, an escaped percent sign in a link
\* and an off-domain link, and a page that is not HTML; the server of site 3 accepts a request and never
\* responds; site 4 is one page that links to itself, and its crawl is started
\* with the seed written with a trailing slash.
Sites == {1, 2, 3, 4}

SeedUrl == <<"https", ":", "/", "/", "example.com">>
PageA == SeedUrl \o <<"/", "a">>
PageB == SeedUrl \o <<"/", "b">>

\* crawler.NewCrawler: the seed parsed into the crawler's Domain.
Domain == Parse(SeedUrl)

\* The -domain argument of a crawl of site s, which goes into the worklist as
\* it stands.  Its scheme and hostname, all that cleanUrl reads of the
\* crawler's Domain, are those of SeedUrl.
SeedGiven(s) == IF s = 4 THEN SeedUrl \o <<"/">> ELSE SeedUrl

\* The href attributes of the anchors of the page a site serves at url.
Hrefs(site, url) ==
  IF site = 1
  THEN IF url = SeedUrl THEN << <<"/", "a">>, <<"/", "b">> >>
       ELSE IF url = PageA THEN << <<"/">>, <<"/", "b">> >>
       ELSE << >>
  ELSE IF site = 2 /\ url = SeedUrl
       THEN << <<"/", "%">>, <<"/", "a", "%25">>, <<"google.com">>, <<"/", "a">> >>
  ELSE IF site = 4 /\ url \in {SeedUrl, SeedUrl \o <<"/">>}
       THEN << <<"/">> >>
       ELSE << >>

\* The Content-Type header a site answers with.
ContentType(site, url) ==
  IF site = 2 /\ url = PageA THEN "application/json" ELSE "text/html"

\* The server never responds to a request for url.
NeverResponds(s, url) == s = 3

\* What http.Get can come back with: a transport error, a response that took
\* longer than the timeout, a response obtained directly, a response obtained
\* by following a redirect.  A URL without a scheme never gets a response.
\* http.Get is called without the context that carries the deadline, so from
\* a server that never responds it does not come back at all.
GetOutcomes(s, url) ==
  IF NeverResponds(s, url) THEN {}
  ELSE IF url = Empty THEN {"error"}
  ELSE {"error", "slow", "direct", "redirect"}

(***************************************************************************)
(* The crawl pipeline                                                      *)
(***************************************************************************)

VARIABLES
  impl,           \* "fronter": fronter.Fronter; "main": the main package
  Retries,        \* the stability threshold the monitor compares chances with
  site,           \* the site being crawled
  Links,          \* data.Data.Links: the visited map, URL -> bool
  mu,             \* data.Data.Mu: "free", or the goroutine holding it
  done,           \* the done channel is closed
  worklistClosed, \* the worklist channel is closed
  unseenClosed,   \* the unseen-URL channel is closed
  seedPc,         \* the seed goroutine: "send", "done"
  cachePc,        \* the cache goroutine: "select", "range", "send", "done"
  cacheList,      \* the batch the cache goroutine ranges over
  cacheIdx,       \* its position in that batch
  monPc,          \* the monitor: "sleep", "check", "closeWorklist", "closeUnseen", "done"
  chances,        \* monitor local
  lastSeen,       \* monitor local
  lastVisited,    \* monitor local
  monSeen,        \* monitor local: len(seen) of the current iteration
  stablePolls,    \* history: the monitor's latest polls in a row that were stable
  wPc,            \* crawl workers: "select", "request", "await", "emit", "errsend", "done"
  wUrl,           \* the link a worker submits, then the URL of the response it processes
  wIdx,           \* the position of ProcessResponse's loop over the page's rawList
  handoffs,       \* the detached goroutines blocked in worklist <- foundLinks (a bag of batches)
  fPc,            \* fetcher workers: "select", "get" (in http.Get), "errsend", "publish", "done"
  fUrl,           \* the URL a fetcher worker is fetching
  fRetries,       \* its retries loop variable
  fRedirected,    \* whether the response it holds came through a redirect
  fAttempts,      \* history: the http.Get calls made for the URL it last took
  fErrors,        \* history: the error records sent for the URL it last took
  inFlight,       \* history: the http.Get calls begun and not yet returned
  streamPc,       \* the stream goroutine: "select", "done"
  panicked,       \* "none", or the panic that ended the process
  handed,         \* history: how often each URL went into the unseen-URL channel (a bag)
  submitted,      \* history: the URLs handed to Fetcher.NewRequest
  dropped,        \* history: the URLs a fetcher worker gave up after its last retry
  fetchFailed,    \* history: some http.Get failed or timed out
  testUrl,        \* cleanUrl called on its own: the href it is given
  cleaned,        \* what that call returned: << >>, or the result in a 1-tuple
  variant,        \* a second href, given to cleanUrl after the first
  recleaned,      \* what cleanUrl returned for variant
  rawList,        \* filteredLinks called on its own: the list it is given
  filteredList,   \* what that call returned: << >>, or the list in a 1-tuple
  doc,            \* findLinks called on its own: the html.Node tree it is given
  extracted,      \* what that call returned: << >>, or the slice in a 1-tuple
  localCleaned    \* what cleanUrl returned for testUrl in a crawler seeded with tsURL

vars == <<impl, Retries, site, Links, mu, done, worklistClosed, unseenClosed, seedPc,
          cachePc, cacheList, cacheIdx, monPc, chances, lastSeen, lastVisited, monSeen,
          stablePolls, wPc, wUrl, wIdx, handoffs, fPc, fUrl, fRetries, fRedirected, fAttempts,
          fErrors, inFlight, streamPc, panicked, handed, submitted, dropped, fetchFailed,
          testUrl, cleaned, variant, recleaned, rawList, filteredList, doc, extracted,
          localCleaned>>

\* The variables of the calls of cleanUrl and filteredLinks on their own.
crawlerVars ==
  <<testUrl, cleaned, variant, recleaned, rawList, filteredList, doc, extracted,
    localCleaned>>

\* Variables grouped by the goroutine that owns them; configVars are the ones
\* no step of the pipeline changes.
configVars == <<impl, Retries, site, crawlerVars>>
chanVars == <<done, worklistClosed, unseenClosed>>
cacheVars == <<cachePc, cacheList, cacheIdx>>
monVars == <<monPc, chances, lastSeen, lastVisited, monSeen, stablePolls>>
workerVars == <<wPc, wUrl, wIdx>>
fetcherVars == <<fPc, fUrl, fRetries, fRedirected, fAttempts, fErrors, inFlight>>

\* The process is alive: no goroutine has panicked.
Running == panicked = "none"

\* NewData, NewFronter, NewFetcher and the go statements of StartFronting,
\* StartFetching and main: every goroutine at the top of its loop.
Started ==
  /\ Links = << >>
  /\ mu = "free"
  /\ done = FALSE
  /\ worklistClosed = FALSE
  /\ unseenClosed = FALSE
  /\ seedPc = "send"
  /\ cachePc = "select"
  /\ cacheList = << >>
  /\ cacheIdx = 1
  /\ monPc = "sleep"
  /\ chances = 0
  /\ lastSeen = 0
  /\ lastVisited = 0
  /\ monSeen = 0
  /\ stablePolls = 0
  /\ wPc = [w \in Workers |-> "select"]
  /\ wUrl = [w \in Workers |-> Empty]
  /\ wIdx = [w \in Workers |-> 1]
  /\ handoffs = EmptyBag
  /\ fPc = [f \in Fetchers |-> "select"]
  /\ fUrl = [f \in Fetchers |-> Empty]
  /\ fRetries = [f \in Fetchers |-> 0]
  /\ fRedirected = [f \in Fetchers |-> FALSE]
  /\ fAttempts = [f \in Fetchers |-> 0]
  /\ fErrors = [f \in Fetchers |-> 0]
  /\ inFlight = 0
  /\ streamPc = "select"
  /\ panicked = "none"
  /\ handed = EmptyBag
  /\ submitted = {}
  /\ dropped = {}
  /\ fetchFailed = FALSE

\* No call of cleanUrl or filteredLinks on its own is under way.
NoCall ==
  /\ cleaned = << >>
  /\ variant = Empty
  /\ recleaned = << >>
  /\ filteredList = << >>
  /\ extracted = << >>
  /\ localCleaned = << >>

\* A crawl: the implementation, the monitor's threshold and the site are chosen.
Init ==
  /\ impl \in {"fronter", "main"}
  /\ Retries \in IF impl = "fronter" THEN 0..MaxRetries ELSE {MainChances}
  /\ site \in Sites
  /\ Started
  /\ testUrl = Empty
  /\ rawList = << >>
  /\ doc = NoDoc
  /\ NoCall

(***************************************************************************)
(* The visited map                                                         *)
(***************************************************************************)

\* A Go map read: the zero value false for an absent key.
LinksGet(links, link) == IF link \in DOMAIN links THEN links[link] ELSE FALSE

\* The test the cache makes under the lock: !Links[link].
Unvisited(links, link) == ~LinksGet(links, link)

\* The value the cache stores for a new link: false in Fronter.cache, true in
\* the cache of the main package.
InsertValue == impl = "main"

\* A map write that drops every other entry.
MarkedFresh(links, link, v) == [u \in {link} |-> v]

\* Links[link] = v
Marked(links, link, v) ==
  [u \in (DOMAIN links) \cup {link} |-> IF u = link THEN v ELSE links[u]]

\* len(Links), and len(seen): the number of entries whose value is true.
Total(links) == Cardinality(DOMAIN links)
SeenCount(links) == Cardinality({u \in DOMAIN links : links[u]})

(***************************************************************************)
(* seed, cache and the detached hand-offs                                  *)
(***************************************************************************)

\* The cache goroutine takes a batch from the worklist channel.
CacheTakes(list) ==
  /\ cachePc = "select"
  /\ ~worklistClosed
  /\ cacheList' = list
  /\ cacheIdx' = 1
  /\ cachePc' = IF list = << >> THEN "select" ELSE "range"

\* The cache goroutine moves on to the next link of its batch.
CacheAdvance ==
  IF cacheIdx < Len(cacheList)
  THEN /\ cacheIdx' = cacheIdx + 1
       /\ cachePc' = "range"
       /\ UNCHANGED cacheList
  ELSE /\ cacheIdx' = 1
       /\ cachePc' = "select"
       /\ cacheList' = << >>

\* Seed: worklist <- []string{domain}, received by the cache goroutine.
SeedSend ==
  /\ Running
  /\ seedPc = "send"
  /\ CacheTakes(<<SeedGiven(site)>>)
  /\ seedPc' = "done"
  /\ UNCHANGED <<configVars, Links, mu, chanVars, monVars, workerVars, handoffs,
                 fetcherVars, streamPc, panicked, handed, submitted, dropped, fetchFailed>>

\* A detached goroutine's worklist <- foundLinks, received by the cache goroutine.
HandoffSend(batch) ==
  /\ Running
  /\ BagIn(batch, handoffs)
  /\ CacheTakes(batch)
  /\ handoffs' = handoffs (-) SetToBag({batch})
  /\ UNCHANGED <<configVars, Links, mu, chanVars, seedPc, monVars, workerVars,
                 fetcherVars, streamPc, panicked, handed, submitted, dropped, fetchFailed>>

\* A goroutine blocked in a send on the worklist channel when it is closed.
SendOnClosedWorklist ==
  /\ Running
  /\ worklistClosed
  /\ seedPc = "send" \/ handoffs # EmptyBag
  /\ panicked' = "send on closed worklist"
  /\ UNCHANGED <<configVars, Links, mu, chanVars, seedPc, cacheVars, monVars, workerVars,
                 handoffs, fetcherVars, streamPc, handed, submitted, dropped, fetchFailed>>

\* cache: case list, ok := <-worklist with !ok.
CacheClosed ==
  /\ Running
  /\ cachePc = "select"
  /\ worklistClosed
  /\ cachePc' = "done"
  /\ UNCHANGED <<configVars, Links, mu, chanVars, seedPc, cacheList, cacheIdx, monVars,
                 workerVars, handoffs, fetcherVars, streamPc, panicked, handed,
                 submitted, dropped, fetchFailed>>

\* cache: case <-done.
CacheDone ==
  /\ Running
  /\ cachePc = "select"
  /\ done
  /\ cachePc' = "done"
  /\ UNCHANGED <<configVars, Links, mu, chanVars, seedPc, cacheList, cacheIdx, monVars,
                 workerVars, handoffs, fetcherVars, streamPc, panicked, handed,
                 submitted, dropped, fetchFailed>>

\* A cache that unlocks once the entry is stored, before its send.
UnlockedForSend == "free"

\* The lock while the cache is in unseen <- link: held by the cache goroutine,
\* which unlocks after the send.
LockedForSend == "cache"

\* cache: Lock, the test of the link, and for a link already visited the Unlock.
\* For an unvisited link the entry is stored and the goroutine goes on, the
\* lock held, to the send on the unseen-URL channel.
CacheVisit ==
  /\ Running
  /\ cachePc = "range"
  /\ mu = "free"
  /\ LET link == cacheList[cacheIdx]
     IN IF Unvisited(Links, link)
        THEN /\ Links' = Marked(Links, link, InsertValue)
             /\ mu' = LockedForSend
             /\ cachePc' = "send"
             /\ UNCHANGED <<cacheList, cacheIdx>>
        ELSE /\ CacheAdvance
             /\ UNCHANGED <<Links, mu>>
  /\ UNCHANGED <<configVars, chanVars, seedPc, monVars, workerVars, handoffs,
                 fetcherVars, streamPc, panicked, handed, submitted, dropped, fetchFailed>>

\* The history of hand-offs, counted up to HandedCap.
Handed(bag, link) ==
  IF CopiesIn(link, bag) < HandedCap THEN bag (+) SetToBag({link}) ELSE bag

\* cache: unseen <- link, received by crawl worker w in its outer select; then Unlock.
CacheSend(w) ==
  /\ Running
  /\ cachePc = "send"
  /\ ~unseenClosed
  /\ wPc[w] = "select"
  /\ wUrl' = [wUrl EXCEPT ![w] = cacheList[cacheIdx]]
  /\ wPc' = [wPc EXCEPT ![w] = "request"]
  /\ handed' = Handed(handed, cacheList[cacheIdx])
  /\ mu' = "free"
  /\ CacheAdvance
  /\ UNCHANGED <<configVars, Links, chanVars, seedPc, monVars, wIdx, handoffs,
                 fetcherVars, streamPc, panicked, submitted, dropped, fetchFailed>>

\* The cache goroutine blocked in its send when the unseen-URL channel is closed.
SendOnClosedUnseen ==
  /\ Running
  /\ cachePc = "send"
  /\ unseenClosed
  /\ panicked' = "send on closed unseen"
  /\ UNCHANGED <<configVars, Links, mu, chanVars, seedPc, cacheVars, monVars, workerVars,
                 handoffs, fetcherVars, streamPc, handed, submitted, dropped, fetchFailed>>

(***************************************************************************)
(* Crawl workers                                                           *)
(***************************************************************************)

\* worker: case link, ok := <-unseen with !ok.
WorkerClosed(w) ==
  /\ Running
  /\ wPc[w] = "select"
  /\ unseenClosed
  /\ wPc' = [wPc EXCEPT ![w] = "done"]
  /\ UNCHANGED <<configVars, Links, mu, chanVars, seedPc, cacheVars, monVars, wUrl, wIdx,
                 handoffs, fetcherVars, streamPc, panicked, handed, submitted, dropped, fetchFailed>>

\* worker: case <-done of the outer select.
WorkerDone(w) ==
  /\ Running
  /\ wPc[w] = "select"
  /\ done
  /\ wPc' = [wPc EXCEPT ![w] = "done"]
  /\ UNCHANGED <<configVars, Links, mu, chanVars, seedPc, cacheVars, monVars, wUrl, wIdx,
                 handoffs, fetcherVars, streamPc, panicked, handed, submitted, dropped, fetchFailed>>

\* worker: case <-done of the inner select, while waiting for a response.
WorkerAwaitDone(w) ==
  /\ Running
  /\ wPc[w] = "await"
  /\ done
  /\ wPc' = [wPc EXCEPT ![w] = "done"]
  /\ UNCHANGED <<configVars, Links, mu, chanVars, seedPc, cacheVars, monVars, wUrl, wIdx,
                 handoffs, fetcherVars, streamPc, panicked, handed, submitted, dropped, fetchFailed>>

\* A fetcher worker that takes requests whatever it is doing.
ReceivingAlways(f) == TRUE

\* Fetcher.worker is in its select, ready to receive from Requests.
Receiving(f) == fPc[f] = "select"

\* http.Get is called, and http.Get returns.
Begun(n) == n + 1
Returned(n) == n - 1

\* Fetcher.NewRequest: Requests <- url, received by fetcher worker f in its
\* select; the worker calls http.Get.
Request(w, f) ==
  /\ Running
  /\ wPc[w] = "request"
  /\ Receiving(f)
  /\ inFlight' = Begun(inFlight)
  /\ wPc' = [wPc EXCEPT ![w] = "await"]
  /\ fPc' = [fPc EXCEPT ![f] = "get"]
  /\ fUrl' = [fUrl EXCEPT ![f] = wUrl[w]]
  /\ fRetries' = [fRetries EXCEPT ![f] = 0]
  /\ fAttempts' = [fAttempts EXCEPT ![f] = 0]
  /\ fErrors' = [fErrors EXCEPT ![f] = 0]
  /\ submitted' = submitted \cup {wUrl[w]}
  /\ wUrl' = [wUrl EXCEPT ![w] = Empty]
  /\ UNCHANGED <<configVars, Links, mu, chanVars, seedPc, cacheVars, monVars, wIdx,
                 handoffs, fRedirected, streamPc, panicked, handed, dropped, fetchFailed>>

\* go func() { worklist <- foundLinks }()
Spawned(bag, batch) == bag (+) SetToBag({batch})

\* The links of the page ProcessResponse is looping over in worker w.
LinksOf(url) == PageLinks(Domain, Hrefs(site, url))

\* ProcessResponse reads the URL of a response that no redirect led to through
\* resp.Request.Response, which is nil.
NilResponse(redirected) == ~redirected

\* The content types ProcessResponse accepts.
AcceptedType(contentType) == contentType \in {"text/html", "text/plain"}

\* Fetch <- resp, received by crawl worker w in its inner select, and the start
\* of ProcessResponse up to its first channel operation.
Deliver(f, w) ==
  /\ Running
  /\ fPc[f] = "publish"
  /\ wPc[w] = "await"
  /\ fPc' = [fPc EXCEPT ![f] = "select"]
  /\ fUrl' = [fUrl EXCEPT ![f] = Empty]
  /\ fRedirected' = [fRedirected EXCEPT ![f] = FALSE]
  /\ IF NilResponse(fRedirected[f])
     THEN /\ panicked' = "nil response"
          /\ UNCHANGED <<wPc, wUrl, handoffs>>
     ELSE IF ~AcceptedType(ContentType(site, fUrl[f]))
     THEN /\ wPc' = [wPc EXCEPT ![w] = "errsend"]
          /\ UNCHANGED <<panicked, wUrl, handoffs>>
     ELSE IF LinksOf(fUrl[f]) = << >>
     THEN /\ BagCardinality(handoffs) < MaxHandoffs
          /\ handoffs' = Spawned(handoffs, << >>)
          /\ wPc' = [wPc EXCEPT ![w] = "select"]
          /\ UNCHANGED <<panicked, wUrl>>
     ELSE /\ wPc' = [wPc EXCEPT ![w] = "emit"]
          /\ wUrl' = [wUrl EXCEPT ![w] = fUrl[f]]
          /\ UNCHANGED <<panicked, handoffs>>
  /\ UNCHANGED <<configVars, Links, mu, chanVars, seedPc, cacheVars, monVars, wIdx,
                 fRetries, fAttempts, fErrors, inFlight, streamPc, handed, submitted,
                 dropped, fetchFailed>>

\* ProcessResponse: c.Out <- record for one link, received by the stream
\* goroutine; after the last link the batch goes to a detached hand-off.
Emit(w) ==
  /\ Running
  /\ wPc[w] = "emit"
  /\ streamPc = "select"
  /\ IF wIdx[w] < Len(LinksOf(wUrl[w]))
     THEN /\ wIdx' = [wIdx EXCEPT ![w] = wIdx[w] + 1]
          /\ UNCHANGED <<wPc, wUrl, handoffs>>
     ELSE /\ BagCardinality(handoffs) < MaxHandoffs
          /\ handoffs' = Spawned(handoffs, FoundLinks(Domain, LinksOf(wUrl[w])))
          /\ wPc' = [wPc EXCEPT ![w] = "select"]
          /\ wUrl' = [wUrl EXCEPT ![w] = Empty]
          /\ wIdx' = [wIdx EXCEPT ![w] = 1]
  /\ UNCHANGED <<configVars, Links, mu, chanVars, seedPc, cacheVars, monVars,
                 fetcherVars, streamPc, panicked, handed, submitted, dropped, fetchFailed>>

\* worker: Err <- err after ProcessResponse failed, received by the stream goroutine.
WorkerErr(w) ==
  /\ Running
  /\ wPc[w] = "errsend"
  /\ streamPc = "select"
  /\ wPc' = [wPc EXCEPT ![w] = "select"]
  /\ UNCHANGED <<configVars, Links, mu, chanVars, seedPc, cacheVars, monVars, wUrl, wIdx,
                 handoffs, fetcherVars, streamPc, panicked, handed, submitted, dropped, fetchFailed>>

(***************************************************************************)
(* Fetcher workers                                                         *)
(***************************************************************************)

\* Fetcher.worker: case <-f.Done.
FetcherDone(f) ==
  /\ Running
  /\ fPc[f] = "select"
  /\ done
  /\ fPc' = [fPc EXCEPT ![f] = "done"]
  /\ UNCHANGED <<configVars, Links, mu, chanVars, seedPc, cacheVars, monVars, workerVars,
                 handoffs, fUrl, fRetries, fRedirected, fAttempts, fErrors, inFlight,
                 streamPc, panicked, handed, submitted, dropped, fetchFailed>>

\* The attempt failed: http.Get returned an error, or the deadline of the
\* attempt's context had passed when it returned.
AttemptFailed(outcome) == outcome \in {"error", "slow"}

\* Fetcher.worker: http.Get returns, and the tests of its result.
Get(f, outcome) ==
  /\ Running
  /\ fPc[f] = "get"
  /\ outcome \in GetOutcomes(site, fUrl[f])
  /\ inFlight' = Returned(inFlight)
  /\ fAttempts' = [fAttempts EXCEPT ![f] = fAttempts[f] + 1]
  /\ IF AttemptFailed(outcome)
     THEN /\ fPc' = [fPc EXCEPT ![f] = "errsend"]
          /\ fetchFailed' = TRUE
          /\ UNCHANGED fRedirected
          /\ UNCHANGED fRetries
     ELSE /\ fPc' = [fPc EXCEPT ![f] = "publish"]
          /\ fRedirected' = [fRedirected EXCEPT ![f] = (outcome = "redirect")]
          /\ fRetries' = [fRetries EXCEPT ![f] = 0]
          /\ UNCHANGED fetchFailed
  /\ UNCHANGED <<configVars, Links, mu, chanVars, seedPc, cacheVars, monVars, workerVars,
                 handoffs, fUrl, fErrors, streamPc, panicked, handed, submitted, dropped>>

\* Fetcher.worker: f.Err <- error, received by the stream goroutine; then the
\* next call of http.Get if retries < RetryCount, else the URL is given up.
FetcherErr(f) ==
  /\ Running
  /\ fPc[f] = "errsend"
  /\ streamPc = "select"
  /\ fErrors' = [fErrors EXCEPT ![f] = fErrors[f] + 1]
  /\ IF fRetries[f] < RetryCount
     THEN /\ fRetries' = [fRetries EXCEPT ![f] = fRetries[f] + 1]
          /\ fPc' = [fPc EXCEPT ![f] = "get"]
          /\ inFlight' = Begun(inFlight)
          /\ UNCHANGED <<fUrl, dropped>>
     ELSE /\ fPc' = [fPc EXCEPT ![f] = "select"]
          /\ fRetries' = [fRetries EXCEPT ![f] = 0]
          /\ fUrl' = [fUrl EXCEPT ![f] = Empty]
          /\ dropped' = dropped \cup {fUrl[f]}
          /\ UNCHANGED inFlight
  /\ UNCHANGED <<configVars, Links, mu, chanVars, seedPc, cacheVars, monVars, workerVars,
                 handoffs, fRedirected, fAttempts, streamPc, panicked, handed, submitted,
                 fetchFailed>>

(***************************************************************************)
(* Monitor and stream                                                      *)
(***************************************************************************)

\* A stability test that does not compare len(seen) with len(Links).
StableUnchecked(seen, total) ==
  seen = lastSeen /\ total = lastVisited /\ total > 0

\* The condition under which the monitor counts one more chance.
Stable(seen, total) ==
  seen = total /\ seen = lastSeen /\ total = lastVisited /\ total > 0

\* chances after one pass over the map.
Counted(seen, total) ==
  LET reset == IF seen # total THEN 0 ELSE chances
  IN IF Stable(seen, total) THEN reset + 1 ELSE reset

\* monitor: Lock, the count of the visited links, the update of chances, Unlock.
MonitorPoll ==
  /\ Running
  /\ monPc = "sleep"
  /\ mu = "free"
  /\ monSeen' = SeenCount(Links)
  /\ chances' = Counted(SeenCount(Links), Total(Links))
  /\ stablePolls' = IF Stable(SeenCount(Links), Total(Links)) THEN stablePolls + 1 ELSE 0
  /\ monPc' = "check"
  /\ UNCHANGED <<configVars, Links, mu, chanVars, seedPc, cacheVars, lastSeen, lastVisited,
                 workerVars, handoffs, fetcherVars, streamPc, panicked, handed,
                 submitted, dropped, fetchFailed>>

\* The exit test of the monitor.
Complete == chances = Retries

\* A monitor that goes on to close the queues without closing done.
MonitorSignalSilent ==
  /\ Running
  /\ monPc = "check"
  /\ Complete
  /\ monPc' = "closeWorklist"
  /\ UNCHANGED <<configVars, Links, mu, chanVars, seedPc, cacheVars,
                 chances, lastSeen, lastVisited, monSeen, stablePolls,
                 workerVars, handoffs,
                 fetcherVars, streamPc, panicked, handed, submitted, dropped, fetchFailed>>

\* monitor: the exit conditions are met, close(done).
MonitorSignal ==
  /\ Running
  /\ monPc = "check"
  /\ Complete
  /\ done' = TRUE
  /\ monPc' = "closeWorklist"
  /\ UNCHANGED <<configVars, Links, mu, worklistClosed, unseenClosed, seedPc, cacheVars,
                 chances, lastSeen, lastVisited, monSeen, stablePolls,
                 workerVars, handoffs,
                 fetcherVars, streamPc, panicked, handed, submitted, dropped, fetchFailed>>

\* monitor: the exit conditions are not met; lastSeen and lastVisited are updated.
MonitorContinue ==
  /\ Running
  /\ monPc = "check"
  /\ ~Complete
  /\ lastSeen' = monSeen
  /\ lastVisited' = Total(Links)
  /\ monPc' = "sleep"
  /\ UNCHANGED <<configVars, Links, mu, chanVars, seedPc, cacheVars, chances, monSeen,
                 stablePolls, workerVars, handoffs, fetcherVars, streamPc, panicked, handed,
                 submitted, dropped, fetchFailed>>

\* monitor: close(worklist).
MonitorCloseWorklist ==
  /\ Running
  /\ monPc = "closeWorklist"
  /\ worklistClosed' = TRUE
  /\ monPc' = "closeUnseen"
  /\ UNCHANGED <<configVars, Links, mu, done, unseenClosed, seedPc, cacheVars,
                 chances, lastSeen, lastVisited, monSeen, stablePolls,
                 workerVars, handoffs,
                 fetcherVars, streamPc, panicked, handed, submitted, dropped, fetchFailed>>

\* monitor: close(unseen) and return.
MonitorCloseUnseen ==
  /\ Running
  /\ monPc = "closeUnseen"
  /\ unseenClosed' = TRUE
  /\ monPc' = "done"
  /\ UNCHANGED <<configVars, Links, mu, done, worklistClosed, seedPc, cacheVars,
                 chances, lastSeen, lastVisited, monSeen, stablePolls,
                 workerVars, handoffs,
                 fetcherVars, streamPc, panicked, handed, submitted, dropped, fetchFailed>>

\* stream: case <-done.
StreamDone ==
  /\ Running
  /\ streamPc = "select"
  /\ done
  /\ streamPc' = "done"
  /\ UNCHANGED <<configVars, Links, mu, chanVars, seedPc, cacheVars, monVars, workerVars,
                 handoffs, fetcherVars, panicked, handed, submitted, dropped, fetchFailed>>

(***************************************************************************)
(* The specification                                                       *)
(***************************************************************************)

\* Every batch a hand-off may carry.
Batches == {FoundLinks(Domain, LinksOf(u)) : u \in {SeedUrl, PageA, PageB}}

Next ==
  \/ SeedSend
  \/ \E batch \in Batches : HandoffSend(batch)
  \/ SendOnClosedWorklist
  \/ CacheClosed
  \/ CacheDone
  \/ CacheVisit
  \/ \E w \in Workers : CacheSend(w)
  \/ SendOnClosedUnseen
  \/ \E w \in Workers : WorkerClosed(w)
  \/ \E w \in Workers : WorkerDone(w)
  \/ \E w \in Workers : WorkerAwaitDone(w)
  \/ \E w \in Workers, f \in Fetchers : Request(w, f)
  \/ \E f \in Fetchers, w \in Workers : Deliver(f, w)
  \/ \E w \in Workers : Emit(w)
  \/ \E w \in Workers : WorkerErr(w)
  \/ \E f \in Fetchers : FetcherDone(f)
  \/ \E f \in Fetchers, outcome \in {"error", "slow", "direct", "redirect"} : Get(f, outcome)
  \/ \E f \in Fetchers : FetcherErr(f)
  \/ MonitorPoll
  \/ MonitorSignal
  \/ MonitorContinue
  \/ MonitorCloseWorklist
  \/ MonitorCloseUnseen
  \/ StreamDone

Spec == Init /\ [][Next]_vars

(***************************************************************************)
(* cleanUrl and filteredLinks called on their own, as the tests call them  *)
(***************************************************************************)

\* Bounds of the inputs.
MaxHrefLen == 3
MaxListLen == 6

\* The sequences over S of length at most n.
UpTo(S, n) == UNION {[1..k -> S] : k \in 0..n}

\* Test_cleanUrl: the table of hrefs and expected results, seed https://example.com.
testCases ==
  { << <<"example.com", ":", "8080">>, SeedUrl \o <<":", "8080">> >>,
    << <<"example.com">>, SeedUrl >>,
    << <<" ", "example.com">>, SeedUrl >>,
    << <<"example.com", "/">>, SeedUrl >>,
    << <<"subdomain.example.com", "/">>, Empty >>,
    << <<" ">> \o SeedUrl, SeedUrl >>,
    << <<"#", "fragment">>, SeedUrl >>,
    << <<"/", "relative", "/", "path">>, SeedUrl \o <<"/", "relative", "/", "path">> >>,
    << <<"/">>, SeedUrl >>,
    << <<"google.com">>, Empty >>,
    << <<"https", ":", "/", "/", "google.com">>, Empty >> }

\* The lexemes hrefs are made of.
HrefAlphabet ==
  {"/", "a", "%25", "#", "?", ":", " ", "example.com", "google.com", "8080", "https"}

\* The hrefs cleanUrl is called with: those of the test and every short href.
HrefInputs == {tc[1] : tc \in testCases} \cup UpTo(HrefAlphabet, MaxHrefLen)

\* Test_filteredLinks: the entries of the list, and the empty string.
ListEntries == {Empty, SeedUrl, SeedUrl \o <<"/", "path">>}

\* The lists filteredLinks is called with.
ListInputs == UpTo(ListEntries, MaxListLen)

\* The hrefs that differ from href only in a trailing slash, in a fragment or
\* in the scheme href lacks.
SameEntity(href) ==
  {href \o <<"/">>, href \o <<"#", "fragment">>}
    \cup (IF HasPrefixHttp(href) THEN {} ELSE {<<"https">> \o SchemeSep \o href})

\* Bound of the documents: the number of nodes below the root.
MaxNodes == 3

\* Test_startFindLinks: the hrefs of the seven anchors of the page.
testHrefs ==
  << <<"/">>, <<"/", "home">>, <<"/", "about">>, <<"/", "blog">>, <<"/", "contact">>,
     <<"/", "privacy">>, <<"/", "cookies">> >>

\* Test_startFindLinks: the page as html.Parse returns it: html, head and body,
\* and in the body one p per anchor, the anchor in it, its text in the anchor.
testDoc ==
  Tree([i \in 1..(4 + 3 * Len(testHrefs)) |->
          IF i = 1 THEN DocumentNode
          ELSE IF i <= 4 THEN ElementNode(<<"html", "head", "body">>[i - 1], << >>)
          ELSE IF (i - 5) % 3 = 0 THEN ElementNode("p", << >>)
          ELSE IF (i - 5) % 3 = 1
          THEN ElementNode("a", <<Attribute("href", testHrefs[(i - 5) \div 3 + 1])>>)
          ELSE TextNode("Link")],
       [i \in 1..(4 + 3 * Len(testHrefs)) |->
          IF i <= 2 THEN i - 1
          ELSE IF i <= 4 THEN 2
          ELSE IF (i - 5) % 3 = 0 THEN 4 ELSE i - 1])

\* The nodes documents are made of: a text that reads "a", an element that is
\* no anchor with and without href, anchors without href, with href, and with
\* href after another attribute.
NodeKinds ==
  { TextNode("a"),
    ElementNode("p", << >>),
    ElementNode("link", <<Attribute("href", <<"/", "b">>)>>),
    ElementNode("a", << >>),
    ElementNode("a", <<Attribute("href", <<"/">>)>>),
    ElementNode("a", <<Attribute("class", <<"b">>), Attribute("href", <<"/", "a">>)>>) }

\* The documents of k nodes below the root: every node after its parent, and
\* no node below a text.
DocsOf(k) ==
  { Tree(<<DocumentNode>> \o np[1], <<0>> \o np[2]) :
      np \in {x \in [1..k -> NodeKinds] \X [1..k -> 1..k] :
                \A i \in 1..k :
                  x[2][i] <= i /\ (x[2][i] > 1 => x[1][x[2][i] - 1].Type # "Text")} }

\* The documents findLinks is called with.
DocInputs == {testDoc} \cup UNION {DocsOf(k) : k \in 0..MaxNodes}

\* Test_ProcessResponse: ts.URL, the address of the httptest server, which
\* is the loopback address with a port.
tsURL == <<"http", ":", "/", "/", "127.0.0.1", ":", "8080">>

\* The variables of the crawl pipeline.
pipelineVars ==
  <<impl, Retries, site, Links, mu, chanVars, seedPc, cacheVars, monVars, workerVars,
    handoffs, fetcherVars, streamPc, panicked, handed, submitted, dropped, fetchFailed>>

\* A crawler for the seed https://example.com, its pipeline not running, and
\* one href or one list to call it with.
CrawlerInit ==
  /\ impl = "main"
  /\ Retries = MainChances
  /\ site = 1
  /\ Started
  /\ \/ testUrl \in HrefInputs /\ rawList = << >> /\ doc = NoDoc
     \/ testUrl = Empty /\ rawList \in ListInputs /\ doc = NoDoc
     \/ testUrl = Empty /\ rawList = << >> /\ doc \in DocInputs
  /\ NoCall

\* cleaned, err := c.cleanUrl(url)
CleanUrl ==
  /\ cleaned = << >>
  /\ cleaned' = <<cleanUrl(Domain, testUrl)>>
  /\ UNCHANGED <<pipelineVars, testUrl, variant, recleaned, rawList, filteredList, doc, extracted,
                 localCleaned>>

\* cleanUrl called on the URL it returned before.
CleanAgain ==
  /\ cleaned # << >>
  /\ recleaned = << >>
  /\ cleaned[1].url # Empty
  /\ variant' = cleaned[1].url
  /\ recleaned' = <<cleanUrl(Domain, cleaned[1].url)>>
  /\ UNCHANGED <<pipelineVars, testUrl, cleaned, rawList, filteredList, doc, extracted,
                 localCleaned>>

\* cleanUrl called on an href of the same entity as the first.
CleanVariant(href) ==
  /\ cleaned # << >>
  /\ recleaned = << >>
  /\ href \in SameEntity(testUrl)
  /\ variant' = href
  /\ recleaned' = <<cleanUrl(Domain, href)>>
  /\ UNCHANGED <<pipelineVars, testUrl, cleaned, rawList, filteredList, doc, extracted,
                 localCleaned>>

\* filteredList := filteredLinks(rawList)
FilterLinks ==
  /\ filteredList = << >>
  /\ filteredList' = <<filteredLinks(rawList)>>
  /\ UNCHANGED <<pipelineVars, testUrl, cleaned, variant, recleaned, rawList, doc, extracted,
                 localCleaned>>

\* c.findLinks(nil, doc)
FindLinks ==
  /\ extracted = << >>
  /\ extracted' = <<findLinks(<< >>, doc, 1)>>
  /\ UNCHANGED <<pipelineVars, testUrl, cleaned, variant, recleaned, rawList, filteredList,
                 doc, localCleaned>>

\* c := NewCrawler(ts.URL, ...) and c.cleanUrl of an href.
CleanUrlLocal ==
  /\ localCleaned = << >>
  /\ localCleaned' = <<cleanUrl(Parse(tsURL), testUrl)>>
  /\ UNCHANGED <<pipelineVars, testUrl, cleaned, variant, recleaned, rawList, filteredList,
                 doc, extracted>>

CrawlerNext ==
  \/ CleanUrl
  \/ CleanAgain
  \/ \E href \in SameEntity(testUrl) : CleanVariant(href)
  \/ FilterLinks
  \/ FindLinks
  \/ CleanUrlLocal

CrawlerSpec == CrawlerInit /\ [][CrawlerNext]_vars

(***************************************************************************)
(* Properties                                                              *)
(***************************************************************************)

\* The in-domain URLs a page of the site links to.
Successors(s, u) ==
  IF AcceptedType(ContentType(s, u))
  THEN {FoundUrl(Domain, l) : l \in {PageLinks(Domain, Hrefs(s, u))[i] :
                                       i \in 1..Len(PageLinks(Domain, Hrefs(s, u)))}} \ {Empty}
  ELSE {}

RECURSIVE ReachableFrom(_, _)
ReachableFrom(s, set) ==
  IF UNION {Successors(s, u) : u \in set} \subseteq set
  THEN set
  ELSE ReachableFrom(s, set \cup UNION {Successors(s, u) : u \in set})

\* The in-domain URLs reachable from the seed.
Reachable == ReachableFrom(site, {SeedUrl})

\* No entry of the visited map is Discovered (false).
NoDiscovered == \A u \in DOMAIN Links : Links[u]

\* The step in which the monitor raises cancellation.
Signals == ~done /\ done'

\* Nothing is in the pipeline: no batch waits for or is in the cache goroutine,
\* no URL waits in the unseen-URL channel, no fetch is in flight, no response
\* is being processed.
Quiescent ==
  /\ seedPc = "done"
  /\ handoffs = EmptyBag
  /\ cachePc = "select"
  /\ \A w \in Workers : wPc[w] = "select"
  /\ \A f \in Fetchers : fPc[f] = "select"

\* Fetcher worker f is blocked for good: in its send on the result channel
\* with every crawl worker returned, or in its send on the error channel with
\* the stream goroutine returned.
FetcherBlocked(f) ==
  \/ fPc[f] = "publish" /\ \A w \in Workers : wPc[w] = "done"
  \/ fPc[f] = "errsend" /\ streamPc = "done"

\* Crawl worker w is blocked for good: in NewRequest with every fetcher worker
\* returned, or in a send on the output or error channel with the stream
\* goroutine returned.
WorkerBlocked(w) ==
  \/ wPc[w] = "request" /\ \A f \in Fetchers : fPc[f] = "done"
  \/ wPc[w] \in {"emit", "errsend"} /\ streamPc = "done"

\* C1: every URL is handed to the unseen-URL channel at most once in a crawl.
C1_HandedAtMostOnce == \A u \in BagToSet(handed) : CopiesIn(u, handed) <= 1

C3_SignalAfterAllFetched ==
  [][(Signals /\ Retries >= 1 /\ ~fetchFailed) =>
       \A u \in Reachable : LinksGet(Links, u)]_vars

\* C4: in the step in which the monitor (with a threshold of at least 1)
\* raises cancellation the pipeline is quiescent.
C4_QuiescentAtSignal == [][(Signals /\ Retries >= 1) => Quiescent]_vars

\* C5: a step never removes a key of the visited map and never turns a Fetched
\* entry back to Discovered.
C5_VisitedSetGrows ==
  [][\A u \in DOMAIN Links : u \in DOMAIN Links' /\ (Links[u] => Links'[u])]_vars

\* The cache goroutine has gone past a repeat of the seed URL in a later batch,
\* and the seed's entry is still there and Fetched.
C5_Witness ==
  /\ cachePc = "range"
  /\ cacheIdx = 2
  /\ cacheList[1] = SeedUrl
  /\ SeedUrl \in DOMAIN Links
  /\ Links[SeedUrl]

\* C6: every URL submitted to the Fetcher is Fetched in the visited map, and
\* every Fetched entry has been submitted to the Fetcher.
C6_FetchedIffSubmitted ==
  /\ \A u \in submitted : LinksGet(Links, u)
  /\ \A u \in DOMAIN Links : Links[u] => u \in submitted

\* C7: every URL submitted to the Fetcher has the hostname of the seed.
C7_SubmittedInDomain == \A u \in submitted : Hostname(Parse(u)) = Hostname(Domain)

\* C8: no batch handed to the worklist holds the empty string, and the empty
\* string is neither a key of the visited map nor submitted to the Fetcher.
C8_NoEmptyUrl ==
  /\ \A batch \in BagToSet(handoffs) : \A i \in 1..Len(batch) : batch[i] # Empty
  /\ Empty \notin DOMAIN Links
  /\ Empty \notin submitted

\* C9: once cancellation is raised no fetcher worker is left in a send on the
\* result channel or on the error channel that nothing will ever receive.
C9_NoFetcherBlocked == done /\ Running => \A f \in Fetchers : ~FetcherBlocked(f)

\* C10: once cancellation is raised no crawl worker and no fetcher worker is
\* left in a wait that nothing will ever end, so that each of them returns.
C10_AllReturnAfterCancel ==
  done /\ Running =>
    /\ \A w \in Workers : ~WorkerBlocked(w)
    /\ \A f \in Fetchers : ~FetcherBlocked(f)

\* The monitor's close(done), close(worklist) and close(unseen) statements.
ClosesDone == monPc = "check" /\ monPc' = "closeWorklist"
ClosesWorklist == monPc = "closeWorklist" /\ monPc' = "closeUnseen"
ClosesUnseen == monPc = "closeUnseen" /\ monPc' = "done"

TakesUrl(w) == wPc[w] = "select" /\ wPc'[w] = "request"

\* A fetcher worker's response is consumed by a crawl worker.
ResultConsumed(f) == fPc[f] = "publish" /\ fPc'[f] = "select"

\* A fetcher worker takes a request.
TakesRequest(f) == fPc[f] = "select" /\ fPc'[f] = "get"

\* The cache goroutine takes a batch from the worklist channel.
TakesBatch ==
  seedPc # seedPc' \/ BagCardinality(handoffs') < BagCardinality(handoffs)

\* C12: once done is closed (by a monitor with a threshold of at least 1) no
\* crawl worker takes a URL or consumes a fetcher result, no fetcher worker
\* takes a request and the cache takes no batch.
C12_CancellationWins ==
  [][done /\ Retries >= 1 =>
             /\ \A w \in Workers : ~TakesUrl(w)
             /\ \A f \in Fetchers : ~ResultConsumed(f) /\ ~TakesRequest(f)
             /\ ~TakesBatch]_vars

\* C13: no goroutine is ever in a send on the worklist or on the unseen-URL
\* channel when the monitor (with a threshold of at least 1) closes that
\* channel: the process never ends with a send on a closed channel.
C13_NoSendOnClosed ==
  Retries >= 1 =>
    panicked \notin {"send on closed worklist", "send on closed unseen"}

\* A fetcher worker gives a URL up: it leaves its last send on the error channel
\* for the top of its loop.
GivesUp(f) == fPc[f] = "errsend" /\ fPc'[f] = "select"

\* C14: a fetcher worker that gives a URL up has made RetryCount + 1 attempts
\* and sent RetryCount + 1 error records for it; no response is published for
\* a URL given up, and no fetcher worker takes that URL again.
C14_DroppedAfterAllAttempts ==
  [][\A f \in Fetchers :
       /\ GivesUp(f) => /\ fAttempts'[f] = RetryCount + 1
                        /\ fErrors'[f] = RetryCount + 1
                        /\ fUrl[f] \in dropped'
       /\ fPc'[f] = "publish" => fUrl'[f] \notin dropped'
       /\ TakesRequest(f) => fUrl'[f] \notin dropped]_vars

\* C15: when a crawl worker receives a response whose content type is neither
\* text/html nor text/plain, the process goes on, the worker turns to the send
\* of one error and no batch is handed off; after that send the worker is back
\* at the top of its loop.
C15_BadContentTypeOneError ==
  [][/\ \A f \in Fetchers :
          ResultConsumed(f) /\ ~AcceptedType(ContentType(site, fUrl[f])) =>
            /\ Running'
            /\ handoffs' = handoffs
            /\ \E w \in Workers : wPc[w] = "await" /\ wPc'[w] = "errsend"
     /\ \A w \in Workers :
          wPc[w] = "errsend" /\ wPc'[w] # "errsend" => wPc'[w] = "select"]_vars

\* The links the Data records of the page at url carry, in the order sent.
RecordLinks(url) == LinksOf(url)

\* The cleaned form of the i-th href of a page, Empty when cleanUrl fails on
\* it or finds it out of scope.
CleanedHref(hrefs, i) == cleanUrl(Domain, hrefs[i]).url

\* The position of the first href of the page that cleans to link, 0 if none.
FirstHref(hrefs, link) ==
  IF \E j \in 1..Len(hrefs) : CleanedHref(hrefs, j) = link
  THEN CHOOSE j \in 1..Len(hrefs) :
         /\ CleanedHref(hrefs, j) = link
         /\ \A k \in 1..(j - 1) : CleanedHref(hrefs, k) # link
  ELSE 0

C17_TestCasesCleaned ==
  \A tc \in testCases :
    cleaned # << >> /\ testUrl = tc[1] => cleaned[1] = Cleaned(tc[2], FALSE)

\* cleanUrl has been called on example.com:8080 and has kept the port.
C17_Witness ==
  /\ testUrl = <<"example.com", ":", "8080">>
  /\ cleaned = <<Cleaned(SeedUrl \o <<":", "8080">>, FALSE)>>

\* C18: cleaning a URL that cleanUrl returned (not empty) returns that URL
\* again, without error.
C18_CleanUrlIdempotent ==
  recleaned # << >> /\ cleaned[1].url # Empty /\ variant = cleaned[1].url =>
    recleaned[1] = Cleaned(variant, FALSE)

\* C19: two in-domain hrefs that differ only in a trailing slash, in a fragment
\* or in a missing scheme are cleaned to the same URL, and no cleaned URL ends
\* with a slash or holds a fragment.
C19_SameEntitySameUrl ==
  /\ /\ recleaned # << >>
     /\ variant \in SameEntity(testUrl)
     /\ cleaned[1].url # Empty
     /\ recleaned[1].url # Empty
     => recleaned[1].url = cleaned[1].url
  /\ cleaned # << >> /\ cleaned[1].url # Empty =>
       /\ cleaned[1].url[Len(cleaned[1].url)] # "/"
       /\ Index(cleaned[1].url, "#") = 0

\* The position of the first entry of list equal to link, 0 if none.
FirstEntry(list, link) ==
  IF \E j \in 1..Len(list) : list[j] = link
  THEN CHOOSE j \in 1..Len(list) : list[j] = link /\ \A k \in 1..(j - 1) : list[k] # link
  ELSE 0

\* C20: filteredLinks returns the distinct non-empty entries of its list, each
\* once, in the order of their first occurrence.
C20_FilteredDistinctInOrder ==
  filteredList # << >> =>
    LET unique == filteredList[1]
    IN /\ \A i \in 1..Len(unique) : unique[i] # Empty /\ FirstEntry(rawList, unique[i]) # 0
       /\ \A i, j \in 1..Len(unique) :
            i < j => FirstEntry(rawList, unique[i]) < FirstEntry(rawList, unique[j])
       /\ \A j \in 1..Len(rawList) :
            rawList[j] # Empty => \E i \in 1..Len(unique) : unique[i] = rawList[j]

\* Test_filteredLinks: the list of three and three equal entries gave two.
C20_Witness ==
  /\ rawList = <<SeedUrl, SeedUrl, SeedUrl, SeedUrl \o <<"/", "path">>,
                 SeedUrl \o <<"/", "path">>, SeedUrl \o <<"/", "path">> >>
  /\ filteredList = << <<SeedUrl, SeedUrl \o <<"/", "path">> >> >>

\* The nodes of the document.
NodesOf(d) == 1..Len(d.nodes)

\* The anchor elements of the document, and those that carry an href.
Anchors(d) == {n \in NodesOf(d) : d.nodes[n].Type = "Element" /\ d.nodes[n].Data = "a"}
HrefAnchors(d) == {n \in Anchors(d) : \E i \in 1..Len(d.nodes[n].Attr) : d.nodes[n].Attr[i].Key = "href"}

\* The href of an anchor that carries one.
HrefOf(d, n) ==
  d.nodes[n].Attr[CHOOSE i \in 1..Len(d.nodes[n].Attr) : d.nodes[n].Attr[i].Key = "href"].Val

\* The nodes from the root down to n.
RECURSIVE PathTo(_, _)
PathTo(d, n) == IF n = 1 THEN <<1>> ELSE Append(PathTo(d, d.parent[n]), n)

\* Path p comes before path q: p is a proper start of q, or where they part p
\* takes the child further to the left.
PathBefore(p, q) ==
  \/ Len(p) < Len(q) /\ SubSeq(q, 1, Len(p)) = p
  \/ \E k \in 1..Len(p) :
       k <= Len(q) /\ SubSeq(p, 1, k - 1) = SubSeq(q, 1, k - 1) /\ p[k] < q[k]

\* Document order: a node before its descendants, a child and its descendants
\* before the children to its right.
Precedes(d, m, n) == PathBefore(PathTo(d, m), PathTo(d, n))

\* The number of anchors with href up to n in document order.
Rank(d, n) == Cardinality({m \in HrefAnchors(d) : Precedes(d, m, n)}) + 1

\* C21, as claimed: for a document with N anchor elements findLinks returns
\* exactly N strings.
C21_OneHrefPerAnchor ==
  extracted # << >> => Len(extracted[1]) = Cardinality(Anchors(doc))

\* C21, amended: findLinks returns the href of every anchor element that
\* carries one, at any depth, once each, in document order, and nothing else.
C21_HrefsInDocumentOrder ==
  extracted # << >> =>
    /\ Len(extracted[1]) = Cardinality(HrefAnchors(doc))
    /\ \A n \in HrefAnchors(doc) : extracted[1][Rank(doc, n)] = HrefOf(doc, n)

\* Test_startFindLinks: the seven hrefs of the page, in the order of the page.
C21_Witness == doc = testDoc /\ extracted = <<testHrefs>>

\* C22: the number of http.Get calls begun and not yet returned never exceeds
\* the number of fetcher workers, whatever the number of crawl workers and of
\* URLs waiting to be submitted.
C22_GetsInFlightBounded == inFlight <= NumFetchers

\* Every fetcher worker is in http.Get while a crawl worker waits in
\* NewRequest with a further URL.
C22_Witness ==
  /\ inFlight = NumFetchers
  /\ \A f \in Fetchers : fPc[f] = "get"
  /\ \E w \in Workers : wPc[w] = "request"

\* The monitor's pass over the visited map.
Polls == monPc = "sleep" /\ monPc' = "check"

\* What a poll sees differs from what the poll before saw, or some entry of
\* the visited map is not Fetched.
GrowthOrOutstanding ==
  \/ SeenCount(Links) # Total(Links)
  \/ SeenCount(Links) # lastSeen
  \/ Total(Links) # lastVisited

\* C23: when the monitor raises cancellation its latest polls, as many as the
\* threshold, were stable one after the other, and a poll that sees growth of
\* the visited map or outstanding work sets the count of chances back to 0.
C23_ConsecutiveStablePolls ==
  [][/\ Signals => stablePolls >= Retries
     /\ Polls /\ GrowthOrOutstanding => chances' = 0]_vars

\* C24: whenever the lock of the visited map is free, every key of the map has
\* been received from the unseen-URL channel by a crawl worker.
C24_InsertedMeansHandedOff ==
  mu = "free" => \A u \in DOMAIN Links : BagIn(u, handed)

\* The monitor has counted a visited map of several keys, the lock free again,
\* while the cache goroutine waits for the lock with a link not yet stored.
C24_Witness ==
  /\ mu = "free"
  /\ monPc = "check"
  /\ Total(Links) >= 2
  /\ cachePc = "range"
  /\ cacheList[cacheIdx] \notin DOMAIN Links

\* The cache goroutine is in its send on the unseen-URL channel, the lock
\* held, while every crawl worker waits for a response and no fetcher worker
\* has a URL to fetch: no response will come, no worker will take the link,
\* and the monitor, which needs the lock, will never raise cancellation.
LockHeldForever ==
  /\ Running
  /\ ~done
  /\ cachePc = "send"
  /\ mu = "cache"
  /\ \A w \in Workers : wPc[w] = "await"
  /\ \A f \in Fetchers : fPc[f] = "select"

\* C25: before cancellation the pipeline never comes to a state in which no
\* crawl worker will ever receive from the unseen-URL channel again, the cache
\* goroutine holding the lock of the visited map and the monitor waiting for it.
C25_UnseenAlwaysDrained == ~LockHeldForever

\* C26: a fetcher worker that is in http.Get always comes out of it, with a
\* response, with an error or with the deadline of the attempt passed.
C26_AttemptEnds ==
  \A f \in Fetchers : fPc[f] = "get" => GetOutcomes(site, fUrl[f]) # {}

\* The href fails to parse in normalization: cleanUrl returns an error for it,
\* or for the link it has cleaned it to.
ParseFails(href) ==
  cleanUrl(Domain, href).err \/ cleanUrl(Domain, cleanUrl(Domain, href).url).err

\* C27: while ProcessResponse sends the records of a page, nothing in the batch
\* it will return stems from an href that failed to parse (no empty string in
\* particular), and every in-domain href of the page that did parse has its
\* record and its entry in the batch.
C27_ParseFailureDroppedAlone ==
  \A w \in Workers :
    wPc[w] = "emit" =>
      LET hrefs == Hrefs(site, wUrl[w])
          recs == RecordLinks(wUrl[w])
          batch == FoundLinks(Domain, recs)
      IN /\ \A i \in 1..Len(batch) :
              /\ batch[i] # Empty
              /\ \E j \in 1..Len(hrefs) :
                   ~ParseFails(hrefs[j]) /\ CleanedHref(hrefs, j) = batch[i]
         /\ \A j \in 1..Len(hrefs) :
              ~ParseFails(hrefs[j]) /\ CleanedHref(hrefs, j) # Empty =>
                /\ \E i \in 1..Len(recs) : recs[i] = CleanedHref(hrefs, j)
                /\ \E i \in 1..Len(batch) : batch[i] = CleanedHref(hrefs, j)

\* The URL is in canonical form: cleanUrl returns it as it stands.
IsCanonical(url) == cleanUrl(Domain, url) = Cleaned(url, FALSE)

\* C28: every key of the visited map is in canonical form, and no two URLs
\* submitted to the Fetcher are cleaned to the same URL.
C28_NoPageFetchedTwice ==
  /\ \A u \in DOMAIN Links : IsCanonical(u)
  /\ \A u, v \in submitted : u # v => cleanUrl(Domain, u).url # cleanUrl(Domain, v).url

\* C29: in a crawler seeded with http://127.0.0.1:8080, an href that begins
\* with '/' and that cleanUrl accepts is cleaned to a URL whose host is the
\* seed's host with the seed's port.
C29_RelativeKeepsPort ==
  localCleaned # << >> /\ HasPrefix(TrimSpace(testUrl), "/") /\ ~localCleaned[1].err =>
    /\ localCleaned[1].url # Empty
    /\ Parse(localCleaned[1].url).Host = Parse(tsURL).Host

\* C30: whenever a crawl worker receives a response from the Fetcher, obtained
\* directly or through a redirect, ProcessResponse comes back with a batch or
\* with an error: the process goes on and the worker is sending the records of
\* the URL that was requested, is sending the error, or has handed off the
\* batch of a page without links.
C30_ProcessResponseReturns ==
  [][\A f \in Fetchers :
       ResultConsumed(f) =>
         /\ Running'
         /\ \E w \in Workers :
              /\ wPc[w] = "await"
              /\ \/ wPc'[w] = "emit" /\ wUrl'[w] = fUrl[f]
                 \/ wPc'[w] = "errsend"
                 \/ wPc'[w] = "select" /\ BagCardinality(handoffs') > BagCardinality(handoffs)]_vars

\* C31: whatever stability threshold the monitor is configured with, the step
\* in which it closes done is never taken while the visited map is empty, that
\* is, before cache has inserted the seed URL.
C31_NoSignalOnEmptyVisited == [][Signals => Total(Links) > 0]_vars

====
